---- MODULE Spec2Model ----
(***************************************************************************)
(* Model of the directory-index handler of actix-shs-cli                   *)
(* (src/actix-shs-cli/src/handlers.rs).                                    *)
(*                                                                         *)
(* Rust Strings are modelled as sequences of bytes (0..255), so that       *)
(* percent-encoding, percent-decoding and UTF-8 validation are computed    *)
(* the way the url crate and std compute them.                             *)
(***************************************************************************)
EXTENDS Integers, Sequences, FiniteSets, TLC

VARIABLES
    pc,         \* handler process: "idle" | "handling" | "done"
    req,        \* the request being handled: [path, sort, order]
    resp,       \* what MethodGetHandler::handle returned (or how it ended)
    segments,   \* codec: a sequence of decoded path segments
    links,      \* codec: what encode / decode / breadcrumb produced for it
    mtimes,     \* time: a pair of modification times
    datetimes,  \* time: their (sec, nsec) pairs
    listing,    \* sorter: scanned entries (enumeration order) and the query
    sorted      \* sorter: the sorted entries and the three toggle directions

vars == <<pc, req, resp, segments, links, mtimes, datetimes, listing, sorted>>

---------------------------------------------------------------------------
(* Bounds of the model.                                                    *)

\* longest decoded segment (bytes) drawn for the codec
MaxSegLen == 3
\* most segments in a segment sequence drawn for the codec
MaxSegs == 2
\* most entries in a listing drawn for the sorter
MaxEntries == 3
\* most entries a directory scan of the handler returns
MaxScan == 2
\* largest whole-second distance from the epoch drawn for a time
MaxSecs == 2

---------------------------------------------------------------------------
(* Bytes.                                                                  *)

\* b'/'
Slash == 47
\* b'%'
Percent == 37
\* Option<T>: None is <<>>, Some(x) is <<x>>
None == <<>>
Some(x) == <<x>>

\* (b as char).to_digit(16); -1 stands for None
HexVal(b) ==
    IF b >= 48 /\ b <= 57 THEN b - 48
    ELSE IF b >= 65 /\ b <= 70 THEN b - 55
    ELSE IF b >= 97 /\ b <= 102 THEN b - 87
    ELSE -1

\* the upper-case hex digit the url crate writes for a nibble
HexDigit(v) == IF v < 10 THEN 48 + v ELSE 55 + v

\* PATH_SEGMENT_ENCODE_SET: C0 controls and everything above '~' (SIMPLE),
\* space " # < > (QUERY), ` ? { } (DEFAULT), % / (PATH_SEGMENT)
InPathSegmentEncodeSet(b) ==
    \/ b < 32
    \/ b > 126
    \/ b \in {32, 34, 35, 60, 62}
    \/ b \in {96, 63, 123, 125}
    \/ b \in {Percent, Slash}

\* DEFAULT_ENCODE_SET of the url crate: PATH_SEGMENT_ENCODE_SET without % and /
InDefaultEncodeSet(b) ==
    \/ b < 32
    \/ b > 126
    \/ b \in {32, 34, 35, 60, 62}
    \/ b \in {96, 63, 123, 125}

RECURSIVE Utf8PercentEncodeDefault(_)
Utf8PercentEncodeDefault(s) ==
    IF s = <<>> THEN <<>>
    ELSE LET b == Head(s)
         IN  (IF InDefaultEncodeSet(b)
              THEN <<Percent, HexDigit(b \div 16), HexDigit(b % 16)>>
              ELSE <<b>>) \o Utf8PercentEncodeDefault(Tail(s))

\* utf8_percent_encode(s, PATH_SEGMENT_ENCODE_SET).to_string()
RECURSIVE Utf8PercentEncode(_)
Utf8PercentEncode(s) ==
    IF s = <<>> THEN <<>>
    ELSE LET b == Head(s)
         IN  (IF InPathSegmentEncodeSet(b)
              THEN <<Percent, HexDigit(b \div 16), HexDigit(b % 16)>>
              ELSE <<b>>) \o Utf8PercentEncode(Tail(s))

\* percent_decode(s): "%XY" with two hex digits is one byte, any other byte
\* (a '%' not followed by two hex digits included) is itself
RECURSIVE PercentDecode(_)
PercentDecode(s) ==
    IF s = <<>> THEN <<>>
    ELSE IF /\ Head(s) = Percent
            /\ Len(s) >= 3
            /\ HexVal(s[2]) >= 0
            /\ HexVal(s[3]) >= 0
         THEN <<HexVal(s[2]) * 16 + HexVal(s[3])>> \o PercentDecode(SubSeq(s, 4, Len(s)))
         ELSE <<Head(s)>> \o PercentDecode(Tail(s))

IsCont(s, i) == i <= Len(s) /\ s[i] >= 128 /\ s[i] <= 191

\* whether a byte sequence is well-formed UTF-8 (what decode_utf8 accepts)
RECURSIVE IsUtf8(_)
IsUtf8(s) ==
    IF s = <<>> THEN TRUE
    ELSE LET b == Head(s)
         IN  IF b < 128 THEN IsUtf8(Tail(s))
             ELSE IF b >= 194 /\ b <= 223
                  THEN IsCont(s, 2) /\ IsUtf8(SubSeq(s, 3, Len(s)))
             ELSE IF b >= 224 /\ b <= 239
                  THEN /\ IsCont(s, 2) /\ IsCont(s, 3)
                       /\ (b = 224 => s[2] >= 160)
                       /\ (b = 237 => s[2] <= 159)
                       /\ IsUtf8(SubSeq(s, 4, Len(s)))
             ELSE IF b >= 240 /\ b <= 244
                  THEN /\ IsCont(s, 2) /\ IsCont(s, 3) /\ IsCont(s, 4)
                       /\ (b = 240 => s[2] >= 144)
                       /\ (b = 244 => s[2] <= 143)
                       /\ IsUtf8(SubSeq(s, 5, Len(s)))
             ELSE FALSE

\* str::split(sep): the pieces between separators, empty pieces included
RECURSIVE SplitFrom(_, _, _)
SplitFrom(s, sep, cur) ==
    IF s = <<>> THEN <<cur>>
    ELSE IF Head(s) = sep THEN <<cur>> \o SplitFrom(Tail(s), sep, <<>>)
    ELSE SplitFrom(Tail(s), sep, Append(cur, Head(s)))

Split(s, sep) == SplitFrom(s, sep, <<>>)

\* .filter(|s| !s.is_empty())
RECURSIVE NonEmpty(_)
NonEmpty(ss) ==
    IF ss = <<>> THEN <<>>
    ELSE IF Head(ss) = <<>> THEN NonEmpty(Tail(ss))
    ELSE <<Head(ss)>> \o NonEmpty(Tail(ss))

\* Vec<String>::join(sep)
RECURSIVE Join(_, _)
Join(ss, sep) ==
    IF ss = <<>> THEN <<>>
    ELSE IF Len(ss) = 1 THEN ss[1]
    ELSE ss[1] \o <<sep>> \o Join(Tail(ss), sep)

Reverse(s) == [i \in 1..Len(s) |-> s[Len(s) + 1 - i]]

---------------------------------------------------------------------------
(* PathCodec.                                                              *)

\* encode_link_path written with DEFAULT_ENCODE_SET: '%' and '/' stay raw
EncodeLinkPathDefaultSet(path, with_root) ==
    LET link == Join([i \in 1..Len(path) |-> Utf8PercentEncodeDefault(path[i])], Slash)
    IN  IF with_root THEN <<Slash>> \o link ELSE link

\* encode_link_path(path, with_root)
EncodeLinkPath(path, with_root) ==
    LET link == Join([i \in 1..Len(path) |-> Utf8PercentEncode(path[i])], Slash)
    IN  IF with_root THEN <<Slash>> \o link ELSE link

\* the path_prefix computation of handle: split on '/', drop empty pieces,
\* percent-decode each piece, decode_utf8().unwrap(); the unwrap panics on
\* the first piece whose bytes are not UTF-8
DecodePath(path) ==
    LET pieces  == NonEmpty(Split(path, Slash))
        decoded == [i \in 1..Len(pieces) |-> PercentDecode(pieces[i])]
    IN  IF \A i \in 1..Len(decoded) : IsUtf8(decoded[i])
        THEN [panic |-> FALSE, segs |-> decoded]
        ELSE [panic |-> TRUE, segs |-> <<>>]

\* the breadcrumb loop of handle: the last segment with an empty link, then
\* every shorter prefix with encode_link_path(prefix, true), then reversed
RECURSIVE BreadcrumbTail(_)
BreadcrumbTail(parts) ==
    IF parts = <<>> THEN <<>>
    ELSE <<[link |-> EncodeLinkPath(parts, TRUE), label |-> parts[Len(parts)]]>>
         \o BreadcrumbTail(SubSeq(parts, 1, Len(parts) - 1))

Breadcrumb(path_prefix) ==
    IF path_prefix = <<>> THEN <<>>
    ELSE Reverse(
           <<[link |-> <<>>, label |-> path_prefix[Len(path_prefix)]]>>
           \o BreadcrumbTail(SubSeq(path_prefix, 1, Len(path_prefix) - 1)))

---------------------------------------------------------------------------
(* Modification times.                                                     *)
(* A SystemTime is held the way t.duration_since(UNIX_EPOCH) reports it:   *)
(* before = FALSE is Ok(dur), before = TRUE is Err(e) with e.duration(),   *)
(* which is never zero.                                                    *)

NanosPerSec == 1000000000

\* system_time_to_date_time written without the sub-second carry
SystemTimeToDateTimeNoCarry(t) ==
    IF ~t.before THEN [sec |-> t.secs, nsec |-> t.nanos]
    ELSE [sec |-> -t.secs, nsec |-> t.nanos]

\* system_time_to_date_time(t): the (sec, nsec) handed to Local.timestamp
SystemTimeToDateTime(t) ==
    IF ~t.before THEN [sec |-> t.secs, nsec |-> t.nanos]
    ELSE IF t.nanos = 0 THEN [sec |-> -t.secs, nsec |-> 0]
    ELSE [sec |-> -t.secs - 1, nsec |-> NanosPerSec - t.nanos]

\* Ord for integers (u64::cmp)
CmpInt(a, b) == IF a < b THEN "Less" ELSE IF a > b THEN "Greater" ELSE "Equal"

\* SystemTime::cmp
CmpTime(a, b) ==
    IF a.before /\ ~b.before THEN "Less"
    ELSE IF ~a.before /\ b.before THEN "Greater"
    ELSE LET c == IF a.secs = b.secs THEN CmpInt(a.nanos, b.nanos)
                  ELSE CmpInt(a.secs, b.secs)
         IN  IF ~a.before THEN c
             ELSE IF c = "Less" THEN "Greater"
             ELSE IF c = "Greater" THEN "Less"
             ELSE "Equal"

\* String::cmp: lexicographic on the bytes
RECURSIVE CmpBytes(_, _)
CmpBytes(a, b) ==
    IF a = <<>> /\ b = <<>> THEN "Equal"
    ELSE IF a = <<>> THEN "Less"
    ELSE IF b = <<>> THEN "Greater"
    ELSE IF Head(a) = Head(b) THEN CmpBytes(Tail(a), Tail(b))
    ELSE CmpInt(Head(a), Head(b))

---------------------------------------------------------------------------
(* EntrySorter: the sort_by closure, the reverse and the toggles of handle. *)
(* An entry is [filename, kind, len, modified, readable]; kind is "dir"     *)
(* (is_dir), "file" (is_file) or "other" (neither: DirEntry::metadata does  *)
(* not follow a symlink).                                                   *)

IsDir(e) == e.kind = "dir"
IsFile(e) == e.kind = "file"

\* the "size" arm of the sort_by closure
CompareSize(a, b) ==
    IF IsDir(a) = IsDir(b) \/ IsFile(a) = IsFile(b)
    THEN CmpInt(a.len, b.len)
    ELSE IF IsDir(a) THEN "Less"
    ELSE "Greater"

\* the sort_by closure
Compare(sort_field, a, b) ==
    IF sort_field = "name" THEN CmpBytes(a.filename, b.filename)
    ELSE IF sort_field = "modified" THEN CmpTime(a.modified, b.modified)
    ELSE IF sort_field = "size" THEN CompareSize(a, b)
    ELSE CmpBytes(a.filename, b.filename)

\* insert_head of slice::sort_by (slices of up to 20 elements are sorted by
\* insertion): x moves right past every element that is less than it
RECURSIVE InsertHead(_, _, _)
InsertHead(sort_field, x, tail) ==
    IF tail = <<>> THEN <<x>>
    ELSE IF Compare(sort_field, Head(tail), x) = "Less"
         THEN <<Head(tail)>> \o InsertHead(sort_field, x, Tail(tail))
         ELSE <<x>> \o tail

\* entries.sort_by(...): for i in (0..len-1).rev() { insert_head(&mut v[i..]) }
RECURSIVE SortBy(_, _)
SortBy(v, sort_field) ==
    IF Len(v) <= 1 THEN v
    ELSE InsertHead(sort_field, Head(v), SortBy(Tail(v), sort_field))

\* query.get(key).map(|s| s.as_str()).unwrap_or(default)
UnwrapOr(opt, default) == IF opt = None THEN default ELSE opt[1]

\* descending order obtained by inverting the comparator
SortEntriesInverted(entries, sort_field, order) ==
    IF order = "desc"
    THEN LET RECURSIVE Ins(_, _)
             Ins(x, tail) ==
                 IF tail = <<>> THEN <<x>>
                 ELSE IF Compare(sort_field, x, Head(tail)) = "Less"
                      THEN <<Head(tail)>> \o Ins(x, Tail(tail))
                      ELSE <<x>> \o tail
             RECURSIVE Srt(_)
             Srt(v) == IF Len(v) <= 1 THEN v ELSE Ins(Head(v), Srt(Tail(v)))
         IN  Srt(entries)
    ELSE SortBy(entries, sort_field)

\* entries.sort_by(...); if order == "desc" { entries.reverse(); }
SortEntries(entries, sort_field, order) ==
    LET asc == SortBy(entries, sort_field)
    IN  IF order = "desc" THEN Reverse(asc) ELSE asc

\* a toggle that ignores the active direction
ToggleOrderStuck(column, sort_field, order) ==
    IF sort_field = column THEN "desc" ELSE "asc"

\* match (sort_field, order) { (column, "asc") => "desc", _ => "asc" }
ToggleOrder(column, sort_field, order) ==
    IF sort_field = column /\ order = "asc" THEN "desc" ELSE "asc"

\* the part of handle from req.query() to size_order
Sorter(entries, sort_opt, order_opt) ==
    LET sort_field == UnwrapOr(sort_opt, "name")
        order      == UnwrapOr(order_opt, "asc")
    IN  [entries        |-> SortEntries(entries, sort_field, order),
         name_order     |-> ToggleOrder("name", sort_field, order),
         modified_order |-> ToggleOrder("modified", sort_field, order),
         size_order     |-> ToggleOrder("size", sort_field, order)]

---------------------------------------------------------------------------
(* The filesystem the handler reads.                                       *)
(* Which directories and files exist is fixed; what a directory scan       *)
(* enumerates (names, metadata, order, a metadata read that fails) is an   *)
(* input of each request.                                                  *)

NameSrv == <<115, 114, 118>>            \* "srv"
NameWww == <<119, 119, 119>>            \* "www"
NameEtc == <<101, 116, 99>>             \* "etc"
NameDocs == <<100, 111, 99, 115>>       \* "docs"
NameImg == <<105, 109, 103>>            \* "img"
NameATxt == <<97, 46, 116, 120, 116>>   \* "a.txt"

\* args.root, a directory: "/srv/www"
Root == <<Slash>> \o NameSrv \o <<Slash>> \o NameWww

\* Root as the directory it names
RootDir == <<NameSrv, NameWww>>

\* the directories that exist, each as its components from "/"
Dirs ==
    { <<>>, <<NameEtc>>, <<NameSrv>>, RootDir,
      RootDir \o <<NameDocs>>, RootDir \o <<NameDocs, NameImg>> }

\* the regular files that exist
Files == { RootDir \o <<NameDocs, NameATxt>> }

\* PathBuf::push(part): an absolute part replaces the path, any other part
\* is appended after a separator
Push(fs_path, part) ==
    IF part # <<>> /\ Head(part) = Slash THEN part
    ELSE IF fs_path # <<>> /\ fs_path[Len(fs_path)] # Slash
         THEN fs_path \o <<Slash>> \o part
         ELSE fs_path \o part

\* for part in &path_prefix { fs_path.push(part); }
RECURSIVE PushAll(_, _)
PushAll(fs_path, parts) ==
    IF parts = <<>> THEN fs_path
    ELSE PushAll(Push(fs_path, Head(parts)), Tail(parts))

\* the kernel's walk of a path, component by component from cur: "." (byte
\* 46) stays, ".." goes to the parent, a name must be a directory that exists
RECURSIVE Walk(_, _)
Walk(cur, comps) ==
    IF comps = <<>> THEN [err |-> "", dir |-> cur]
    ELSE LET c == Head(comps)
         IN  IF c = <<46>> THEN Walk(cur, Tail(comps))
             ELSE IF c = <<46, 46>>
                  THEN Walk(IF cur = <<>> THEN cur ELSE SubSeq(cur, 1, Len(cur) - 1),
                            Tail(comps))
             ELSE IF Append(cur, c) \in Dirs THEN Walk(Append(cur, c), Tail(comps))
             ELSE IF Append(cur, c) \in Files THEN [err |-> "NotADirectory", dir |-> <<>>]
             ELSE [err |-> "NotFound", dir |-> <<>>]

\* fs::read_dir(&fs_path): the directory that is opened, or the io::Error
ReadDir(fs_path) == Walk(<<>>, NonEmpty(Split(fs_path, Slash)))

\* whether directory d is root or below it
UnderRoot(d) == Len(d) >= Len(RootDir) /\ SubSeq(d, 1, Len(RootDir)) = RootDir

---------------------------------------------------------------------------
(* IndexViewModelBuilder: RowItem::new and the handler.                    *)

\* RowItem::new(entry, path_prefix)
RowItem(entry, path_prefix) ==
    LET file_type  == IF IsDir(entry) THEN "directory" ELSE "file"
        link_parts == path_prefix \o <<entry.filename>>
                      \o (IF IsDir(entry) THEN << <<>> >> ELSE <<>>)
    IN  [file_type  |-> file_type,
         filename   |-> entry.filename,
         link       |-> EncodeLinkPath(link_parts, TRUE),
         link_class |-> IF file_type = "directory" THEN "link-directory" ELSE "link-file",
         modified   |-> SystemTimeToDateTime(entry.modified).sec,
         filesize   |-> IF IsDir(entry) THEN [text |-> "-", bytes |-> 0]
                        ELSE [text |-> "B", bytes |-> entry.len]]

NoResp ==
    [outcome |-> "none", error |-> "", did_scan |-> FALSE, scanned |-> <<>>,
     scan |-> <<>>, path_prefix |-> <<>>, current_directory |-> <<>>,
     breadcrumb |-> <<>>, rows |-> <<>>,
     name_order |-> "", modified_order |-> "", size_order |-> ""]

\* decode_utf8().unwrap() panicked: the handler returned nothing
Panicked == [NoResp EXCEPT !.outcome = "panic"]

\* fs::read_dir(&fs_path)? returned the io::Error
ReadDirFailed(path_prefix, error) ==
    [NoResp EXCEPT !.outcome = "err", !.error = error, !.path_prefix = path_prefix]

\* handle from the scan loop on, over an opened directory: entry.metadata()?
\* returns the io::Error of the first child whose metadata cannot be read;
\* otherwise the entries are sorted and the page is built
Scanned(path_prefix, dir, scan, sort_opt, order_opt) ==
    IF \E i \in 1..Len(scan) : ~scan[i].readable
    THEN [NoResp EXCEPT !.outcome = "err", !.error = "NotFound", !.did_scan = TRUE,
                        !.scanned = dir, !.scan = scan, !.path_prefix = path_prefix]
    ELSE LET s == Sorter(scan, sort_opt, order_opt)
         IN  [outcome           |-> "ok",
              error             |-> "",
              did_scan          |-> TRUE,
              scanned           |-> dir,
              scan              |-> scan,
              path_prefix       |-> path_prefix,
              current_directory |-> EncodeLinkPath(path_prefix \o << <<>> >>, TRUE),
              breadcrumb        |-> Breadcrumb(path_prefix),
              rows              |-> [i \in 1..Len(s.entries) |->
                                        RowItem(s.entries[i], path_prefix)],
              name_order        |-> s.name_order,
              modified_order    |-> s.modified_order,
              size_order        |-> s.size_order]

---------------------------------------------------------------------------
(* Inputs.                                                                 *)

Min(a, b) == IF a < b THEN a ELSE b

\* all sequences of at most n elements of S
RECURSIVE SeqsUpTo(_, _)
SeqsUpTo(S, n) ==
    IF n = 0 THEN {<<>>}
    ELSE LET shorter == SeqsUpTo(S, n - 1)
         IN  shorter \cup {Append(q, x) : q \in shorter, x \in S}

\* two modification times: half a second before 1969-12-31T23:59:59Z, and
\* one second after the epoch
TimeEarly == [before |-> TRUE, secs |-> 1, nanos |-> 500000000]
TimeLate == [before |-> FALSE, secs |-> 1, nanos |-> 0]

\* metadata a child can have: kind, len, modified
Metas ==
    { [kind |-> "dir",   len |-> 10, modified |-> TimeEarly],
      [kind |-> "dir",   len |-> 5,  modified |-> TimeLate],
      [kind |-> "file",  len |-> 5,  modified |-> TimeEarly],
      [kind |-> "file",  len |-> 10, modified |-> TimeLate],
      [kind |-> "other", len |-> 5,  modified |-> TimeLate],
      [kind |-> "other", len |-> 10, modified |-> TimeEarly] }

\* metadata of the children the handler's scans enumerate
ScanMetas ==
    { [kind |-> "dir",   len |-> 10, modified |-> TimeEarly],
      [kind |-> "file",  len |-> 5,  modified |-> TimeLate],
      [kind |-> "other", len |-> 5,  modified |-> TimeEarly] }

\* file names: "a", "b c", "d", "e"
NamePool == << <<97>>, <<98, 32, 99>>, <<100>>, <<101>> >>

FirstNames(n) == {NamePool[i] : i \in 1..Min(n, Len(NamePool))}

MkEntry(name, m, readable) ==
    [filename |-> name, kind |-> m.kind, len |-> m.len,
     modified |-> m.modified, readable |-> readable]

\* what a directory scan can enumerate: at most n children with distinct
\* names, in any order
RECURSIVE Scans(_, _, _, _)
Scans(names, metas, flags, n) ==
    IF n = 0 THEN {<<>>}
    ELSE LET shorter == Scans(names, metas, flags, n - 1)
         IN  shorter \cup
             UNION {{Append(q, MkEntry(nm, m, f)) :
                        nm \in {x \in names : \A i \in 1..Len(q) : q[i].filename # x},
                        m \in metas, f \in flags} : q \in shorter}

\* request paths (req.path()), as bytes
Paths ==
    { <<47>>,                                       \* "/"
      <<47>> \o NameDocs \o <<47>>,                 \* "/docs/"
      <<47, 47>> \o NameDocs \o <<47, 47>> \o NameImg \o <<47>>, \* "//docs//img/"
      <<47>> \o NameDocs \o <<47>> \o NameATxt,     \* "/docs/a.txt"
      <<47, 120>>,                                  \* "/x"
      <<47, 120, 47, 46, 46>>,                      \* "/x/.."
      <<47, 46>>,                                   \* "/."
      <<47, 46, 46>>,                               \* "/.."
      <<47>> \o NameDocs \o <<47, 46, 46, 47, 46, 46>>, \* "/docs/../.."
      <<47, 37, 50, 69, 37, 50, 69>>,               \* "/%2E%2E"
      <<47, 37, 50, 70>> \o NameEtc,                \* "/%2Fetc"
      <<47, 46, 46, 37, 50, 70, 46, 46, 37, 50, 70>> \o NameEtc, \* "/..%2F..%2Fetc"
      <<47, 37, 67, 51, 37, 65, 57>>,               \* "/%C3%A9"
      <<47, 37, 70, 70>>,                           \* "/%FF"
      <<47>> \o NameDocs \o <<47, 37, 67, 51, 37, 50, 56>> } \* "/docs/%C3%28"

\* the values of the sort and order query parameters
SortParams == {None, Some("name"), Some("modified"), Some("size"), Some("date")}
OrderParams == {None, Some("asc"), Some("desc"), Some("up")}

NoReq == [path |-> <<>>, sort |-> None, order |-> None]

---------------------------------------------------------------------------
(* The handler.                                                            *)

HandlerIdle == pc = "idle" /\ req = NoReq /\ resp = NoResp

NoLinks == [done |-> FALSE, encoded |-> <<>>, decoded |-> [panic |-> FALSE, segs |-> <<>>],
            breadcrumb |-> <<>>]
CodecIdle == segments = <<>> /\ links = NoLinks

TimeIdle == mtimes = <<>> /\ datetimes = <<>>

NoListing == [entries |-> <<>>, sort |-> None, order |-> None]
NoSorted == [entries |-> <<>>, name_order |-> "", modified_order |-> "", size_order |-> ""]
SorterIdle == listing = NoListing /\ sorted = NoSorted

\* a GET request reaches the handler
Receive ==
    /\ pc = "idle"
    /\ \E path \in Paths, sort \in SortParams, order \in OrderParams :
           req' = [path |-> path, sort |-> sort, order |-> order]
    /\ pc' = "handling"
    /\ UNCHANGED <<resp, segments, links, mtimes, datetimes, listing, sorted>>

\* MethodGetHandler::handle
Handle ==
    /\ pc = "handling"
    /\ LET d == DecodePath(req.path)
           r == ReadDir(PushAll(Root, d.segs))
       IN  \/ /\ d.panic
              /\ resp' = Panicked
           \/ /\ ~d.panic
              /\ r.err # ""
              /\ resp' = ReadDirFailed(d.segs, r.err)
           \/ /\ ~d.panic
              /\ r.err = ""
              /\ \E scan \in Scans(FirstNames(MaxScan), ScanMetas, BOOLEAN, MaxScan) :
                     resp' = Scanned(d.segs, r.dir, scan, req.sort, req.order)
    /\ pc' = "done"
    /\ UNCHANGED <<req, segments, links, mtimes, datetimes, listing, sorted>>

\* the response (or the panic) has left the handler
Finish ==
    /\ pc = "done"
    /\ pc' = "idle"
    /\ req' = NoReq
    /\ resp' = NoResp
    /\ UNCHANGED <<segments, links, mtimes, datetimes, listing, sorted>>

Init == HandlerIdle /\ CodecIdle /\ TimeIdle /\ SorterIdle

Next == Receive \/ Handle \/ Finish

Spec == Init /\ [][Next]_vars

---------------------------------------------------------------------------
(* PathCodec and BreadcrumbBuilder applied to drawn segment sequences.     *)

\* bytes of decoded segments: 'a', '%', and the two bytes of U+00E9
SegBytes == {97, Percent, 195, 169}

\* the Strings of at most n bytes over SegBytes
Strings(n) == {q \in SeqsUpTo(SegBytes, n) : IsUtf8(q)}

InitCodec ==
    /\ HandlerIdle /\ TimeIdle /\ SorterIdle
    /\ segments \in SeqsUpTo(Strings(MaxSegLen), MaxSegs)
    /\ links = NoLinks

\* encode the segments, decode the link again, build the breadcrumb
Codec ==
    /\ ~links.done
    /\ links' = [done       |-> TRUE,
                 encoded    |-> EncodeLinkPath(segments, FALSE),
                 decoded    |-> DecodePath(EncodeLinkPath(segments, FALSE)),
                 breadcrumb |-> Breadcrumb(segments)]
    /\ UNCHANGED <<pc, req, resp, segments, mtimes, datetimes, listing, sorted>>

NextCodec == Codec

SpecCodec == InitCodec /\ [][NextCodec]_vars

---------------------------------------------------------------------------
(* system_time_to_date_time applied to drawn pairs of times.               *)

NanoSamples == {0, 1, 500000000, 999999999}

Times ==
    {t \in [before : BOOLEAN, secs : 0..MaxSecs, nanos : NanoSamples] :
        t.before => (t.secs # 0 \/ t.nanos # 0)}

InitTime ==
    /\ HandlerIdle /\ CodecIdle /\ SorterIdle
    /\ mtimes \in Times \X Times
    /\ datetimes = <<>>

Convert ==
    /\ datetimes = <<>>
    /\ datetimes' = <<SystemTimeToDateTime(mtimes[1]), SystemTimeToDateTime(mtimes[2])>>
    /\ UNCHANGED <<pc, req, resp, segments, links, mtimes, listing, sorted>>

NextTime == Convert

SpecTime == InitTime /\ [][NextTime]_vars

---------------------------------------------------------------------------
(* The sorter applied to drawn listings and queries.                       *)

InitSort ==
    /\ HandlerIdle /\ CodecIdle /\ TimeIdle
    /\ listing \in [entries : Scans(FirstNames(MaxEntries), Metas, {TRUE}, MaxEntries),
                    sort    : {Some("name"), Some("modified"), Some("size")},
                    order   : {Some("asc"), Some("desc")}]
    /\ sorted = NoSorted

Sort ==
    /\ sorted = NoSorted
    /\ sorted' = Sorter(listing.entries, listing.sort, listing.order)
    /\ UNCHANGED <<pc, req, resp, segments, links, mtimes, datetimes, listing>>

NextSort == Sort

SpecSort == InitSort /\ [][NextSort]_vars

---------------------------------------------------------------------------
(* Properties.                                                             *)

Range(q) == {q[i] : i \in 1..Len(q)}

ValidSorts == {Some("name"), Some("modified"), Some("size")}
ValidOrders == {Some("asc"), Some("desc")}

\* C1: whenever the handler scans a directory, that directory is root or a
\* descendant of root, whatever '.', '..' or '/' the decoded segments hold
C1_ScanStaysUnderRoot == resp.did_scan => UnderRoot(resp.scanned)

\* C2: sorted by size ascending, every directory comes before every regular
\* file, and two directories, or two files, are in the order of their sizes
C2_DirsBeforeFilesBySize ==
    (sorted # NoSorted /\ listing.sort = Some("size") /\ listing.order = Some("asc")) =>
        \A i, j \in 1..Len(sorted.entries) :
            LET a == sorted.entries[i]
                b == sorted.entries[j]
            IN  /\ (IsDir(a) /\ IsFile(b)) => i < j
                /\ (i < j /\ ((IsDir(a) /\ IsDir(b)) \/ (IsFile(a) /\ IsFile(b))))
                       => a.len <= b.len

\* the other direction
Opposite(order) == IF order = "asc" THEN "desc" ELSE "asc"

\* C3: for sort in name/modified/size and order in asc/desc, the toggle of
\* the active field is the opposite of the active direction and the toggle
\* of each inactive field is asc
C3_ToggleDirections ==
    (resp.outcome = "ok" /\ req.sort \in ValidSorts /\ req.order \in ValidOrders) =>
        LET active == req.sort[1]
            expect(column) == IF column = active THEN Opposite(req.order[1]) ELSE "asc"
        IN  /\ resp.name_order = expect("name")
            /\ resp.modified_order = expect("modified")
            /\ resp.size_order = expect("size")

C3_Witness ==
    /\ resp.outcome = "ok"
    /\ req.sort = Some("size")
    /\ req.order = Some("desc")
    /\ resp.size_order = "asc"
    /\ resp.name_order = "asc"

\* an absent or unrecognized parameter replaced by its default
DefaultedSort(opt) == IF opt \in ValidSorts THEN opt ELSE Some("name")
DefaultedOrder(opt) == IF opt \in ValidOrders THEN opt ELSE Some("asc")

\* C4: a request with an absent or unrecognized sort or order parameter gets
\* the rows and the three toggle directions of the same request with the
\* default (sort=name, order=asc) given explicitly
C4_DefaultsAsExplicit ==
    resp.outcome = "ok" =>
        LET explicit == Scanned(resp.path_prefix, resp.scanned, resp.scan,
                                DefaultedSort(req.sort), DefaultedOrder(req.order))
        IN  /\ resp.rows = explicit.rows
            /\ resp.name_order = explicit.name_order
            /\ resp.modified_order = explicit.modified_order
            /\ resp.size_order = explicit.size_order

\* the link the breadcrumb item i of segments s is said to carry: empty for
\* the last, else '/' + the encoded s[1..i] joined by '/' + '/'
ClaimedCrumbLink(s, i) ==
    IF i = Len(s) THEN <<>>
    ELSE <<Slash>> \o Join([k \in 1..i |-> Utf8PercentEncode(s[k])], Slash) \o <<Slash>>

\* C5: the breadcrumb of n > 0 segments has n items, outermost first, item i
\* labelled s[i], the last with the empty link and every earlier one with
\* the encoded prefix s[1..i] between a leading and a trailing '/'; no
\* segments give no breadcrumb
C5_BreadcrumbLinks ==
    resp.outcome = "ok" =>
        LET s == resp.path_prefix
        IN  /\ Len(resp.breadcrumb) = Len(s)
            /\ \A i \in 1..Len(s) :
                   /\ resp.breadcrumb[i].label = s[i]
                   /\ resp.breadcrumb[i].link = ClaimedCrumbLink(s, i)

\* C6: once the directory is opened, a child whose metadata cannot be read
\* is left out and the request succeeds with one row for every other child
C6_UnreadableChildSkipped ==
    resp.did_scan =>
        /\ resp.outcome = "ok"
        /\ Len(resp.rows) = Len(SelectSeq(resp.scan, LAMBDA e : e.readable))
        /\ {resp.rows[i].filename : i \in 1..Len(resp.rows)}
               = {e.filename : e \in {x \in Range(resp.scan) : x.readable}}

\* some segment of the request path percent-decodes to bytes that are not
\* UTF-8
HasUndecodableSegment(path) ==
    \E piece \in Range(NonEmpty(Split(path, Slash))) : ~IsUtf8(PercentDecode(piece))

\* C7: a request path with a segment that does not decode to UTF-8 ends in
\* a DecodingError returned to the caller, without a crash and without a scan
C7_DecodingErrorReturned ==
    (pc = "done" /\ HasUndecodableSegment(req.path)) =>
        /\ resp.outcome = "err"
        /\ resp.error = "DecodingError"
        /\ ~resp.did_scan

\* C8 as stated: every sequence of segments free of '/' survives
\* encode-then-decode
C8_RoundTripAnySegments ==
    (links.done /\ \A i \in 1..Len(segments) : Slash \notin Range(segments[i])) =>
        /\ ~links.decoded.panic
        /\ links.decoded.segs = segments

\* C8: every sequence of non-empty segments free of '/' survives
\* encode-then-decode: decode(encode(s, false, false)) = s
C8_RoundTrip ==
    (/\ links.done
     /\ \A i \in 1..Len(segments) :
            segments[i] # <<>> /\ Slash \notin Range(segments[i])) =>
        /\ ~links.decoded.panic
        /\ links.decoded.segs = segments

C8_Witness ==
    /\ links.done
    /\ Len(segments) = 2
    /\ segments[1] = <<Percent, 97, 97>>
    /\ segments[2] = <<195, 169>>
    /\ links.encoded = <<Percent, 50, 53, 97, 97, Slash, Percent, 67, 51, Percent, 65, 57>>
    /\ links.decoded.segs = segments

\* C9: for the same entries and sort field, the order=desc sequence is the
\* exact reverse of the order=asc sequence, equal keys included
C9_DescIsReverseOfAsc ==
    (sorted # NoSorted /\ listing.order = Some("desc")) =>
        sorted.entries = Reverse(Sorter(listing.entries, listing.sort, Some("asc")).entries)

C9_Witness ==
    /\ sorted # NoSorted
    /\ listing.order = Some("desc")
    /\ listing.sort = Some("size")
    /\ Len(sorted.entries) = 3
    /\ \A i, j \in 1..3 : IsFile(listing.entries[i]) /\ listing.entries[i].len = listing.entries[j].len
    /\ sorted.entries[1] = listing.entries[3]

\* the pair (sec, nsec) carries the signed offset of t from the epoch:
\* sec * 10^9 + nsec = +-(secs * 10^9 + nanos), written so that no product
\* leaves the 32-bit integers
CarriesOffset(t, dt) ==
    IF t.before
    THEN (dt.sec + t.secs) * NanosPerSec + dt.nsec + t.nanos = 0
    ELSE (dt.sec - t.secs) * NanosPerSec + dt.nsec - t.nanos = 0

PairLess(a, b) == a.sec < b.sec \/ (a.sec = b.sec /\ a.nsec < b.nsec)

\* C10: system_time_to_date_time gives 0 <= nsec < 10^9 and
\* sec * 10^9 + nsec equal to the signed nanosecond offset from the epoch:
\* (s, n) at or after the epoch; (-s, 0) or (-s-1, 10^9-n) before it; and an
\* earlier time gives a smaller pair, across the epoch too
C10_SignedOffset ==
    datetimes # <<>> =>
        /\ \A k \in 1..2 :
               LET t  == mtimes[k]
                   dt == datetimes[k]
               IN  /\ 0 <= dt.nsec /\ dt.nsec < NanosPerSec
                   /\ CarriesOffset(t, dt)
                   /\ ~t.before => dt = [sec |-> t.secs, nsec |-> t.nanos]
                   /\ (t.before /\ t.nanos = 0) => dt = [sec |-> -t.secs, nsec |-> 0]
                   /\ (t.before /\ t.nanos # 0) =>
                          dt = [sec |-> -t.secs - 1, nsec |-> NanosPerSec - t.nanos]
        /\ CmpTime(mtimes[1], mtimes[2]) = "Less" => PairLess(datetimes[1], datetimes[2])

C10_Witness ==
    /\ datetimes # <<>>
    /\ mtimes[1] = [before |-> TRUE, secs |-> 1, nanos |-> 1]
    /\ mtimes[2] = [before |-> FALSE, secs |-> 0, nanos |-> 0]
    /\ datetimes[1] = [sec |-> -2, nsec |-> 999999999]
    /\ datetimes[2] = [sec |-> 0, nsec |-> 0]

\* Ordering::reverse
InverseOrdering(o) ==
    IF o = "Less" THEN "Greater" ELSE IF o = "Greater" THEN "Less" ELSE "Equal"

\* compare(a, b) <= 0
NotGreater(sort_field, a, b) == Compare(sort_field, a, b) # "Greater"

\* the sort_by closure for sort_field is a total ordering over the entries es:
\* compare(a, b) is the inverse of compare(b, a), and compare(a, b) <= 0 with
\* compare(b, c) <= 0 gives compare(a, c) <= 0
TotalOrderingOn(sort_field, es) ==
    /\ \A a, b \in es :
           Compare(sort_field, a, b) = InverseOrdering(Compare(sort_field, b, a))
    /\ \A a, b, c \in es :
           (NotGreater(sort_field, a, b) /\ NotGreater(sort_field, b, c))
               => NotGreater(sort_field, a, c)

\* C11: the comparator used for the sort field is a total ordering over the
\* entries of every scan that was sorted, entries that are neither a
\* directory nor a regular file included; in particular the size comparator
\* has no cycle among a directory, a regular file and an entry of another kind
C11_ComparatorTotal ==
    sorted # NoSorted =>
        TotalOrderingOn(UnwrapOr(listing.sort, "name"), Range(listing.entries))

\* what does hold of the code: the name and modified comparators are total
\* orderings, and so is the size comparator over directories and regular
\* files alone
C11_TotalWithoutOtherKinds ==
    sorted # NoSorted =>
        TotalOrderingOn(UnwrapOr(listing.sort, "name"),
                        IF listing.sort = Some("size")
                        THEN {e \in Range(listing.entries) : IsDir(e) \/ IsFile(e)}
                        ELSE Range(listing.entries))

====
